---- MODULE Spec2Model ----
(***************************************************************************)
(* AMA board: the vote ledger, the question lifecycle and the ranked,      *)
(* audience-filtered question list, modelled from the route handlers.      *)
(*                                                                         *)
(* The specifications share the store and the handlers' effects:           *)
(*   Spec       every request runs to completion (sequences of calls):     *)
(*              event lifecycle, submit, vote, answer/reopen, list;        *)
(*   SpecRace   the vote handler split at its awaits (question lookup,     *)
(*              upsert/deleteMany, aggregate), two requests in flight,     *)
(*              racing each other and the host's answer/reopen;            *)
(*   SpecFilter the list handler over questions that are answered,         *)
(*              hidden and pinned;                                         *)
(*   SpecList   the list handler over questions created and pinned at      *)
(*              different times, and voted on.                             *)
(*   SpecEdit   edit and retract within the edit window;                   *)
(*   SpecClient the event page: polling, optimistic votes, in-flight set;  *)
(*   SpecCascade    deletion of the event and of questions, with votes     *)
(*                  racing it;                                             *)
(*   SpecIdentity   voter cookies: middleware, handlers, a browser's jar;  *)
(*   SpecPresenter  the presenter page: poll, mark answered, undo;         *)
(*   SpecAnon       questions without submitter against edit and retract;  *)
(*   SpecAuth       the site and admin logins and the host-only requests.  *)
(***************************************************************************)
EXTENDS Integers, Sequences, FiniteSets, TLC

\* ------------------------------------------------------------------ bounds
\* Questions that can be submitted (ids 1..MaxQuestions, in creation order).
MaxQuestions == 2
\* Ticks of the server clock (timestamps 1..MaxTime).
MaxTime == 3

QuestionIds == 1..MaxQuestions
\* Voter cookies (ama_voter_id) of the browsers.
Voters == {"va", "vb"}
\* The two vote requests that can be in flight at once.
Requests == {"r1", "r2"}
\* Request bodies of the vote endpoint: 2 stands for any other value.
RawValues == {-1, 0, 1, 2}

VARIABLES
    event,          \* the event row: type, isActive, isVotingOpen, status (exists: not deleted)
    questions,      \* question rows by id
    votes,          \* vote rows: for each (questionId, voterId) the values of its rows
    now,            \* the server clock
    req,            \* SpecRace: the vote requests in flight and their position
    resp,           \* the response of the handler that ran last
    lastAccepted,   \* history: the value of the last accepted vote call per (q, v)
    twice,          \* history: a vote call repeated right after an identical one
    scen,           \* history: progress through cast +1, clear, cast +1
    expired,        \* history: the questions an edit or retract was refused for as too late
    local,          \* browser: the questions state of the event page, by question id
    inFlight,       \* browser: votingIdsRef, the ids whose vote request is in flight
    calls,          \* browser: the handleVote invocations awaiting their fetch, by question id
    poll,           \* browser: the list response fetchQuestions awaits
    visitor,        \* SpecIdentity: a browser's cookie jar and tabs, and the ids generated
    presenter,      \* SpecPresenter: the presenter page's questions state and undo queue
    caller          \* SpecAuth: the session tokens a caller holds and the passwords it gave

vars == <<event, questions, votes, now, req, resp, lastAccepted, twice, scen, expired,
          local, inFlight, calls, poll, visitor, presenter, caller>>

\* ------------------------------------------------------------------ store
\* questions.status DEFAULT 'OPEN'; isHidden false and pinnedAt null on create.
\* submitterId "" is null. An id with no row has exists = FALSE; its createdAt is 0
\* while the id has not been given out and stays when the row has been deleted.
NoQuestion ==
    [exists |-> FALSE, status |-> "OPEN", isHidden |-> FALSE, pinnedAt |-> 0, createdAt |-> 0,
     submitterId |-> "", text |-> ""]

NewQuestion(t, submitterId, text) ==
    [exists |-> TRUE, status |-> "OPEN", isHidden |-> FALSE, pinnedAt |-> 0, createdAt |-> t,
     submitterId |-> submitterId, text |-> text]

\* prisma.question.findUnique({ where: { id } }): the row, or null (exists = FALSE).
FindQuestion(qs, q) == qs[q]

RECURSIVE SeqSum(_)
SeqSum(s) == IF Len(s) = 0 THEN 0 ELSE Head(s) + SeqSum(Tail(s))

RECURSIVE SumOver(_, _, _)
SumOver(vs, q, voters) ==
    IF voters = {} THEN 0
    ELSE LET v == CHOOSE x \in voters : TRUE
         IN  SeqSum(vs[q, v]) + SumOver(vs, q, voters \ {v})

\* The rows of question q: how many there are.
RowCount(vs, q) ==
    Cardinality({<<v, i>> \in Voters \X (1..(2 * Cardinality(Requests) + 2)) : i <= Len(vs[q, v])})

\* Mutant: prisma.vote.create in place of the upsert, on a table without the
\* unique index: every call inserts a row.
UpsertInsertOnly(vs, q, v, value) == [vs EXCEPT ![q, v] = Append(@, value)]

\* Mutant: INSERT ... ON CONFLICT DO NOTHING: an existing row keeps its value.
UpsertIgnoreConflict(vs, q, v, value) ==
    [vs EXCEPT ![q, v] = IF Len(@) = 0 THEN <<value>> ELSE @]

\* prisma.vote.upsert on the unique key (questionId, voterId): the row is updated in
\* place when the key exists and inserted otherwise; votes_questionId_voterId_key
\* makes the insert of a second row for the key impossible.
Upsert(vs, q, v, value) ==
    [vs EXCEPT ![q, v] = IF Len(@) = 0 THEN <<value>> ELSE [i \in 1..Len(@) |-> value]]

\* Mutant: deleteMany({ where: { questionId } }): the voterId is left out.
DeleteManyWholeQuestion(vs, q, v) ==
    [k \in DOMAIN vs |-> IF k[1] = q THEN <<>> ELSE vs[k]]

\* prisma.vote.deleteMany({ where: { questionId, voterId } })
DeleteMany(vs, q, v) == [vs EXCEPT ![q, v] = <<>>]

\* prisma.vote.aggregate({ where: { questionId }, _sum: { value: true } }):
\* SUM over no rows is null, modelled as <<>>; otherwise <<sum>>.
AggregateSum(vs, q) ==
    IF RowCount(vs, q) = 0 THEN <<>> ELSE <<SumOver(vs, q, Voters)>>

\* agg._sum.value ?? 0
Coalesce(x, d) == IF Len(x) = 0 THEN d ELSE x[1]

\* value === 0 ? deleteMany : upsert
VoteWriteEffect(vs, q, v, value) ==
    IF value = 0 THEN DeleteMany(vs, q, v) ELSE Upsert(vs, q, v, value)

\* votes_questionId_fkey ... ON DELETE CASCADE: the vote rows of the deleted
\* questions `gone` are deleted with them.
CascadeVotesNone(vs, gone) == vs
CascadeVotes(vs, gone) == [k \in DOMAIN vs |-> IF k[1] \in gone THEN <<>> ELSE vs[k]]

\* A deleted question row: its id is not given again.
Deleted(question) == [NoQuestion EXCEPT !.createdAt = question.createdAt]

\* questions_eventId_fkey ... ON DELETE CASCADE: the questions of the deleted event
\* are deleted with it.
CascadeQuestions(qs) == [q \in DOMAIN qs |-> Deleted(qs[q])]

\* ------------------------------------------------------------------ responses
NoResp == [op |-> "none", status |-> 0]

VoteResp(q, v, value, st, score) ==
    [op |-> "vote", status |-> st, q |-> q, v |-> v, value |-> value,
     score |-> score, myVote |-> IF value = 0 THEN 0 ELSE value]

Plain(op, st) == [op |-> op, status |-> st]

\* ------------------------------------------------------------------ initial state
\* A question the page does not show.
NoLocal == [present |-> FALSE, score |-> 0, myVote |-> 0]

\* No list request is outstanding.
NoPoll == [sent |-> FALSE, questions |-> <<>>, postWrite |-> {}, overtaken |-> {}, done |-> {}]

IdleRequest == [pc |-> "idle", q |-> 1, v |-> "va", value |-> 0]

\* The voter-identity facts of an HTTP exchange: the ama_voter_id cookie of the
\* request, the value the middleware set on the response, the value the route handler
\* set on it, and the id the handler attributed the request to ("" for none).
NoExchange == [cookie |-> "", middleware |-> "", handler |-> "", voterId |-> ""]

\* The tabs of the visiting browser.
Tabs == {"t1", "t2"}

\* A browser that never visited: no voter cookie, no tab open; no id was generated.
NoVisitor ==
    [jar |-> "", tabs |-> [t \in Tabs |-> "closed"], minted |-> {},
     exchange |-> NoExchange, sentAs |-> {}]

\* The presenter page before its first poll: no questions, an empty undo queue.
NoPresenter == [status |-> [q \in QuestionIds |-> "none"], undoQueue |-> {}]

\* A caller that holds no session cookie and gave no password.
NoCaller == [site |-> "", admin |-> "", gaveAdminPassword |-> FALSE]

\* The store after the migrations and the creation of one event of a type in `types`:
\* no questions, no votes.
InitStore(types) ==
    /\ event \in {[exists |-> TRUE, type |-> t, isActive |-> TRUE, isVotingOpen |-> TRUE,
                   status |-> "OPEN"] : t \in types}
    /\ questions = [q \in QuestionIds |-> NoQuestion]
    /\ votes = [k \in QuestionIds \X Voters |-> <<>>]
    /\ now = 1
    /\ req = [r \in Requests |-> IdleRequest]
    /\ resp = NoResp
    /\ lastAccepted = [k \in QuestionIds \X Voters |-> 0]
    /\ twice = [on |-> FALSE, score |-> 0, rows |-> <<>>]
    /\ scen = [stage |-> 0, q |-> 1, v |-> "va", score |-> 0, rows |-> <<>>]
    /\ expired = {}
    /\ local = [q \in QuestionIds |-> NoLocal]
    /\ inFlight = {}
    /\ calls = [q \in QuestionIds |-> <<>>]
    /\ poll = NoPoll
    /\ visitor = NoVisitor
    /\ presenter = NoPresenter
    /\ caller = NoCaller

\* Spec: a team event (guest-managed) or a company event (admin-managed).
Init == InitStore({"team", "company"})

\* The other specifications: a team event.
InitTeam == InitStore({"team"})

\* ------------------------------------------------------------------ history
\* The state of the browser, which no route handler reads or writes.
browser == <<local, inFlight, calls, poll>>

\* The state of the clients of SpecIdentity, SpecPresenter and SpecAuth.
aside == <<visitor, presenter, caller>>

TwiceOff == [on |-> FALSE, score |-> 0, rows |-> <<>>]
ScenOff == [stage |-> 0, q |-> 1, v |-> "va", score |-> 0, rows |-> <<>>]

\* The rows of question q, by voter.
QRows(vs, q) == [v \in Voters |-> vs[q, v]]

\* A handler other than the vote handler ran: the vote calls are no longer in a row.
HistReset ==
    /\ twice' = TwiceOff
    /\ scen' = ScenOff
    /\ UNCHANGED <<lastAccepted, expired, browser, aside>>

\* The vote call (q, v, raw) is accepted: the body is valid, the question exists
\* and is OPEN (the handler's own checks, see CastVote).
Accepted(q, raw) ==
    raw \in {1, -1, 0} /\ questions[q].exists /\ questions[q].status = "OPEN"

\* The history of the vote call CastVote(q, v, raw), taken in the same step: the
\* call's response is resp', the rows it leaves are votes'.
Track(q, v, raw) ==
    IF ~Accepted(q, raw) THEN HistReset
    ELSE
    /\ UNCHANGED <<expired, browser, aside>>
    /\ lastAccepted' = [lastAccepted EXCEPT ![q, v] = raw]
    /\ twice' =
         IF /\ raw # 0
            /\ resp.op = "vote" /\ resp.status = 200
            /\ resp.q = q /\ resp.v = v /\ resp.value = raw
         THEN [on |-> TRUE, score |-> resp.score, rows |-> QRows(votes, q)]
         ELSE TwiceOff
    /\ scen' =
         IF scen.stage = 2 /\ scen.q = q /\ scen.v = v /\ raw = 1
         THEN [scen EXCEPT !.stage = 3]
         ELSE IF scen.stage = 1 /\ scen.q = q /\ scen.v = v /\ raw = 0
         THEN [scen EXCEPT !.stage = 2]
         ELSE IF raw = 1 /\ Len(votes[q, v]) = 0
         THEN [stage |-> 1, q |-> q, v |-> v, score |-> resp'.score, rows |-> QRows(votes', q)]
         ELSE ScenOff

hist == <<lastAccepted, twice, scen, expired>>

\* ------------------------------------------------------------------ handlers
\* POST /api/questions/[questionId]/vote, run to completion.
CastVote(q, v, raw) ==
    LET question == FindQuestion(questions, q)
        written == VoteWriteEffect(votes, q, v, raw)
        score == Coalesce(AggregateSum(written, q), 0)
    IN  /\ UNCHANGED <<event, questions, now, req>>
        /\ \/ /\ raw \notin {1, -1, 0}
              /\ resp' = VoteResp(q, v, raw, 400, 0)
              /\ UNCHANGED votes
           \/ /\ raw \in {1, -1, 0}
              /\ ~question.exists
              /\ resp' = VoteResp(q, v, raw, 404, 0)
              /\ UNCHANGED votes
           \/ /\ raw \in {1, -1, 0}
              /\ question.exists
              /\ question.status # "OPEN"
              /\ resp' = VoteResp(q, v, raw, 409, 0)
              /\ UNCHANGED votes
           \/ /\ raw \in {1, -1, 0}
              /\ question.exists
              /\ question.status = "OPEN"
              /\ votes' = written
              /\ resp' = VoteResp(q, v, raw, 200, score)

\* The ids already given to questions (an id is never given twice), and the id the
\* next question gets.
UsedIds(qs) == {q \in QuestionIds : qs[q].createdAt # 0}
NextId(qs) == Cardinality(UsedIds(qs)) + 1

\* The text of a submitted question, and the text an edit replaces it with.
SubmittedText == "t0"
EditedText == "t1"

\* POST /api/events/[eventId]/questions; cookie: the caller's voter cookie, ""
\* absent; textOk: the body passes the validation (non-empty text of at most 280
\* characters, a name unless anonymous). `limit` bounds the number of questions
\* submitted.
SubmitQuestion(cookie, textOk, limit) ==
    /\ NextId(questions) <= limit
    /\ UNCHANGED <<event, votes, now, req>>
    /\ \/ /\ ~(event.exists /\ event.isActive)
          /\ resp' = Plain("submit", 404)
          /\ UNCHANGED questions
       \/ /\ event.exists /\ event.isActive
          /\ ~textOk
          /\ resp' = Plain("submit", 400)
          /\ UNCHANGED questions
       \/ /\ event.exists /\ event.isActive
          /\ textOk
          /\ questions' = [questions EXCEPT
                               ![NextId(questions)] = NewQuestion(now, cookie, SubmittedText)]
          /\ resp' = Plain("submit", 201)

\* Mutant: answering a question takes its pin away.
AnswerQuestionUnpins(q, isAdmin) ==
    /\ UNCHANGED <<event, votes, now, req>>
    /\ \/ /\ ~isAdmin
          /\ resp' = Plain("answer", 401)
          /\ UNCHANGED questions
       \/ /\ isAdmin
          /\ ~FindQuestion(questions, q).exists
          /\ resp' = Plain("answer", 404)
          /\ UNCHANGED questions
       \/ /\ isAdmin
          /\ FindQuestion(questions, q).exists
          /\ questions' = [questions EXCEPT ![q].status = "ANSWERED", ![q].pinnedAt = 0]
          /\ resp' = Plain("answer", 200)

\* POST /api/questions/[questionId]/answer
AnswerQuestion(q, isAdmin) ==
    /\ UNCHANGED <<event, votes, now, req>>
    /\ \/ /\ ~isAdmin
          /\ resp' = Plain("answer", 401)
          /\ UNCHANGED questions
       \/ /\ isAdmin
          /\ ~FindQuestion(questions, q).exists
          /\ resp' = Plain("answer", 404)
          /\ UNCHANGED questions
       \/ /\ isAdmin
          /\ FindQuestion(questions, q).exists
          /\ questions' = [questions EXCEPT ![q].status = "ANSWERED"]
          /\ resp' = Plain("answer", 200)

\* Mutant: the update runs without the session check.
UpdateQuestionNoSession(op, q, isAdmin, field, value) ==
    /\ UNCHANGED <<event, votes, now, req>>
    /\ \/ /\ ~questions[q].exists
          /\ resp' = Plain(op, 500)
          /\ UNCHANGED questions
       \/ /\ questions[q].exists
          /\ questions' = [questions EXCEPT ![q] = [@ EXCEPT ![field] = value]]
          /\ resp' = Plain(op, 200)

\* prisma.question.update({ where: { id }, data }) of the host routes that do not
\* look the question up first: a missing row makes update throw (a 500 response).
UpdateQuestion(op, q, isAdmin, field, value) ==
    /\ UNCHANGED <<event, votes, now, req>>
    /\ \/ /\ ~isAdmin
          /\ resp' = Plain(op, 401)
          /\ UNCHANGED questions
       \/ /\ isAdmin
          /\ ~questions[q].exists
          /\ resp' = Plain(op, 500)
          /\ UNCHANGED questions
       \/ /\ isAdmin
          /\ questions[q].exists
          /\ questions' = [questions EXCEPT ![q] = [@ EXCEPT ![field] = value]]
          /\ resp' = Plain(op, 200)

\* DELETE /api/questions/[questionId]/answer
ReopenQuestion(q, isAdmin) == UpdateQuestion("reopen", q, isAdmin, "status", "OPEN")

\* const EDIT_WINDOW_MS = 2 * 60 * 1000
EDIT_WINDOW_MS == 2 * 60 * 1000

\* Date.now() and createdAt.getTime(): under SpecEdit one unit of the clock is one
\* minute.
GetTime(t) == t * 60 * 1000

\* Mutant: the window test is left out.
WindowExpiredNever(t, createdAt) == FALSE

\* Mutant: the test is reversed: refused inside the window, allowed after it.
WindowExpiredReversed(t, createdAt) == GetTime(t) - GetTime(createdAt) < EDIT_WINDOW_MS

\* Date.now() - question.createdAt.getTime() > EDIT_WINDOW_MS
WindowExpired(t, createdAt) == GetTime(t) - GetTime(createdAt) > EDIT_WINDOW_MS

EditResp(op, q, cookie, text, st, error) ==
    [op |-> op, status |-> st, q |-> q, v |-> cookie, text |-> text, error |-> error]

\* Mutant: a question without submitter passes the ownership check.
EditChecksUnowned(q, cookie) ==
    LET question == FindQuestion(questions, q)
    IN  IF cookie = "" THEN [status |-> 401, error |-> "Unauthorized"]
        ELSE IF ~question.exists THEN [status |-> 404, error |-> "NotFound"]
        ELSE IF question.submitterId # "" /\ question.submitterId # cookie
             THEN [status |-> 403, error |-> "Forbidden"]
        ELSE IF WindowExpired(now, question.createdAt)
             THEN [status |-> 403, error |-> "WindowExpired"]
        ELSE [status |-> 200, error |-> ""]

\* The checks PATCH and DELETE /api/questions/[questionId] share: the status and
\* the error of the refusal, or 200.
EditChecks(q, cookie) ==
    LET question == FindQuestion(questions, q)
    IN  IF cookie = "" THEN [status |-> 401, error |-> "Unauthorized"]
        ELSE IF ~question.exists THEN [status |-> 404, error |-> "NotFound"]
        ELSE IF question.submitterId # cookie THEN [status |-> 403, error |-> "Forbidden"]
        ELSE IF WindowExpired(now, question.createdAt)
             THEN [status |-> 403, error |-> "WindowExpired"]
        ELSE [status |-> 200, error |-> ""]

\* PATCH /api/questions/[questionId]; text: the body's text trimmed, "" empty.
EditQuestion(q, cookie, text) ==
    LET checks == EditChecks(q, cookie)
    IN  /\ UNCHANGED <<event, votes, now, req>>
        /\ \/ /\ checks.status # 200
              /\ resp' = EditResp("edit", q, cookie, text, checks.status, checks.error)
              /\ UNCHANGED questions
           \/ /\ checks.status = 200
              /\ text = ""
              /\ resp' = EditResp("edit", q, cookie, text, 400, "TextRequired")
              /\ UNCHANGED questions
           \/ /\ checks.status = 200
              /\ text # ""
              /\ questions' = [questions EXCEPT ![q].text = text]
              /\ resp' = EditResp("edit", q, cookie, text, 200, "")

\* DELETE /api/questions/[questionId]: the row is deleted, and its votes with it
\* (votes_questionId_fkey ON DELETE CASCADE).
RetractQuestion(q, cookie) ==
    LET checks == EditChecks(q, cookie)
    IN  /\ UNCHANGED <<event, now, req>>
        /\ \/ /\ checks.status # 200
              /\ resp' = EditResp("retract", q, cookie, "", checks.status, checks.error)
              /\ UNCHANGED <<questions, votes>>
           \/ /\ checks.status = 200
              /\ questions' = [questions EXCEPT ![q] = Deleted(questions[q])]
              /\ votes' = CascadeVotes(votes, {q})
              /\ resp' = EditResp("retract", q, cookie, "", 200, "")

\* PATCH /api/admin/events; ia, ivo: the body's isActive and isVotingOpen, each
\* "true", "false" or "absent" (not a boolean). Title, description and start time,
\* which no handler of the model reads, are left out.
AdminPatchEvent(isAdmin, ia, ivo) ==
    /\ UNCHANGED <<questions, votes, now, req>>
    /\ \/ /\ ~isAdmin
          /\ resp' = Plain("adminPatch", 401)
          /\ UNCHANGED event
       \/ /\ isAdmin
          /\ ia = "absent" /\ ivo = "absent"
          /\ resp' = Plain("adminPatch", 400)
          /\ UNCHANGED event
       \/ /\ isAdmin
          /\ ~(ia = "absent" /\ ivo = "absent")
          /\ event' = [event EXCEPT
                         !.isActive = IF ia = "absent" THEN @ ELSE ia = "true",
                         !.isVotingOpen = IF ivo = "absent" THEN @ ELSE ivo = "true"]
          /\ resp' = Plain("adminPatch", 200)

\* PATCH /api/events/[eventId]; kind: "close" (status: "CLOSED"), "edit" (title,
\* start time and host name valid) or "invalid" (one of them missing).
TeamPatchEvent(kind, ivo) ==
    /\ UNCHANGED <<questions, votes, now, req>>
    /\ \/ /\ event.type # "team"
          /\ resp' = Plain("teamPatch", 403)
          /\ UNCHANGED event
       \/ /\ event.type = "team"
          /\ kind = "close"
          /\ event' = [event EXCEPT !.status = "CLOSED"]
          /\ resp' = Plain("teamPatch", 200)
       \/ /\ event.type = "team"
          /\ kind = "invalid"
          /\ resp' = Plain("teamPatch", 400)
          /\ UNCHANGED event
       \/ /\ event.type = "team"
          /\ kind = "edit"
          /\ event' = [event EXCEPT
                         !.isVotingOpen = IF ivo = "absent" THEN @ ELSE ivo = "true"]
          /\ resp' = Plain("teamPatch", 200)

Tri == {"absent", "true", "false"}

\* ------------------------------------------------------------------ bounds of Spec
\* Questions submitted under Spec and SpecRace.
LedgerQuestions == 1
\* The ids their requests name: the questions submitted, or not submitted yet.
LedgerIds == 1..LedgerQuestions

\* ------------------------------------------------------------------ SpecRace
\* The vote handler awaits three store operations; other requests run in between.
\* Step 1: the body check and prisma.question.findUnique.
VoteLookup(r, q, v, raw) ==
    LET question == FindQuestion(questions, q)
    IN  /\ req[r].pc \in {"idle", "done"}
        /\ UNCHANGED <<event, questions, votes, now>>
        /\ \/ /\ raw \notin {1, -1, 0}
              /\ resp' = VoteResp(q, v, raw, 400, 0)
              /\ req' = [req EXCEPT ![r] = IdleRequest]
           \/ /\ raw \in {1, -1, 0}
              /\ ~question.exists
              /\ resp' = VoteResp(q, v, raw, 404, 0)
              /\ req' = [req EXCEPT ![r] = IdleRequest]
           \/ /\ raw \in {1, -1, 0}
              /\ question.exists
              /\ question.status # "OPEN"
              /\ resp' = VoteResp(q, v, raw, 409, 0)
              /\ req' = [req EXCEPT ![r] = IdleRequest]
           \/ /\ raw \in {1, -1, 0}
              /\ question.exists
              /\ question.status = "OPEN"
              /\ resp' = NoResp
              /\ req' = [req EXCEPT ![r] = [pc |-> "looked", q |-> q, v |-> v, value |-> raw]]

\* Step 2: prisma.vote.deleteMany or prisma.vote.upsert.
\* An upsert for a question that was deleted since step 1 violates
\* votes_questionId_fkey: prisma throws and the request ends with a 500.
VoteWrite(r) ==
    /\ req[r].pc = "looked"
    /\ IF req[r].value # 0 /\ ~questions[req[r].q].exists
       THEN /\ UNCHANGED votes
            /\ req' = [req EXCEPT ![r] = IdleRequest]
            /\ resp' = VoteResp(req[r].q, req[r].v, req[r].value, 500, 0)
       ELSE /\ votes' = VoteWriteEffect(votes, req[r].q, req[r].v, req[r].value)
            /\ req' = [req EXCEPT ![r].pc = "written"]
            /\ resp' = NoResp
    /\ UNCHANGED <<event, questions, now>>

\* Step 3: prisma.vote.aggregate and the response.
VoteAggregate(r) ==
    /\ req[r].pc = "written"
    /\ resp' = VoteResp(req[r].q, req[r].v, req[r].value, 200,
                        Coalesce(AggregateSum(votes, req[r].q), 0))
    /\ req' = [req EXCEPT ![r] = IdleRequest]
    /\ UNCHANGED <<event, questions, votes, now>>

NextRace ==
    \/ \E r \in Requests, q \in LedgerIds, v \in Voters, raw \in RawValues :
          VoteLookup(r, q, v, raw) /\ UNCHANGED <<hist, browser, aside>>
    \/ \E r \in Requests : VoteWrite(r) /\ UNCHANGED <<hist, browser, aside>>
    \/ \E r \in Requests : VoteAggregate(r) /\ UNCHANGED <<hist, browser, aside>>
    \/ \E textOk \in BOOLEAN : SubmitQuestion("va", textOk, LedgerQuestions) /\ UNCHANGED <<hist, browser, aside>>
    \/ \E q \in LedgerIds, isAdmin \in BOOLEAN : AnswerQuestion(q, isAdmin) /\ UNCHANGED <<hist, browser, aside>>
    \/ \E q \in LedgerIds, isAdmin \in BOOLEAN : ReopenQuestion(q, isAdmin) /\ UNCHANGED <<hist, browser, aside>>

SpecRace == InitTeam /\ [][NextRace]_vars

\* ------------------------------------------------------------------ the list
\* POST / DELETE /api/questions/[questionId]/hide
HideQuestion(q, isAdmin) == UpdateQuestion("hide", q, isAdmin, "isHidden", TRUE)
UnhideQuestion(q, isAdmin) == UpdateQuestion("unhide", q, isAdmin, "isHidden", FALSE)

\* POST / DELETE /api/questions/[questionId]/pin: pinnedAt = new Date(), or null (0).
PinQuestion(q, isAdmin) == UpdateQuestion("pin", q, isAdmin, "pinnedAt", now)
UnpinQuestion(q, isAdmin) == UpdateQuestion("unpin", q, isAdmin, "pinnedAt", 0)

\* The server clock advances. The clock is read only to stamp createdAt and
\* pinnedAt, so a tick is taken once the current time has been given to a row.
Tick ==
    /\ now < MaxTime
    /\ \E q \in QuestionIds :
          questions[q].exists /\ now \in {questions[q].createdAt, questions[q].pinnedAt}
    /\ now' = now + 1
    /\ resp' = NoResp
    /\ UNCHANGED <<event, questions, votes, req>>

\* The sequences that list each element of S once.
RECURSIVE Orderings(_)
Orderings(S) ==
    IF S = {} THEN {<<>>}
    ELSE UNION {{<<x>> \o rest : rest \in Orderings(S \ {x})} : x \in S}

\* Mutant: the public filter is { status: "OPEN" } alone, hidden questions included.
FindManyOpenOnly(qs, isAdmin) ==
    LET rows == {q \in QuestionIds : qs[q].exists /\ (isAdmin \/ qs[q].status = "OPEN")}
    IN  {o \in Orderings(rows) :
            \A i \in 1..Len(o), j \in 1..Len(o) :
                i < j => qs[o[i]].createdAt >= qs[o[j]].createdAt}

\* prisma.question.findMany({ where: { eventId, ...(isAdmin ? {} : { status: "OPEN",
\* isHidden: false }) }, orderBy: { createdAt: "desc" } }): the ids of the rows, in
\* any order the database may return them (rows of equal createdAt in either order).
FindMany(qs, isAdmin) ==
    LET rows == {q \in QuestionIds :
                    /\ qs[q].exists
                    /\ isAdmin \/ (qs[q].status = "OPEN" /\ ~qs[q].isHidden)}
    IN  {o \in Orderings(rows) :
            \A i \in 1..Len(o), j \in 1..Len(o) :
                i < j => qs[o[i]].createdAt >= qs[o[j]].createdAt}

\* Mutant: the score is the number of votes (q.votes.length).
ReduceScoreCount(vs, q) == RowCount(vs, q)

\* q.votes.reduce((sum, v) => sum + v.value, 0)
ReduceScore(vs, q) == SumOver(vs, q, Voters)

\* q.votes.find((v) => v.voterId === voterId)?.value ?? null, null written 0.
MyVote(vs, q, voter) ==
    IF voter \in Voters /\ Len(vs[q, voter]) > 0 THEN vs[q, voter][1] ELSE 0

\* One element of `enriched`.
Enrich(qs, vs, q, voter) ==
    [id |-> q, status |-> qs[q].status, isHidden |-> qs[q].isHidden,
     pinnedAt |-> qs[q].pinnedAt, createdAt |-> qs[q].createdAt,
     score |-> ReduceScore(vs, q), myVote |-> MyVote(vs, q, voter)]

\* a.pinnedAt ? 1 : 0
PinnedBit(a) == IF a.pinnedAt # 0 THEN 1 ELSE 0

\* Mutant: the score sort orders two pinned questions as the newest sort does,
\* by createdAt.
CompareScorePinnedByDate(a, b) ==
    IF PinnedBit(b) # PinnedBit(a) THEN PinnedBit(b) - PinnedBit(a)
    ELSE IF PinnedBit(a) = 1 /\ PinnedBit(b) = 1 THEN b.createdAt - a.createdAt
    ELSE IF b.score - a.score # 0 THEN b.score - a.score
    ELSE b.createdAt - a.createdAt

\* The comparator of the score sort.
CompareScore(a, b) ==
    IF PinnedBit(b) # PinnedBit(a) THEN PinnedBit(b) - PinnedBit(a)
    ELSE IF PinnedBit(a) = 1 /\ PinnedBit(b) = 1 THEN b.pinnedAt - a.pinnedAt
    ELSE IF b.score - a.score # 0 THEN b.score - a.score
    ELSE b.createdAt - a.createdAt

\* Mutant: the newest sort compares createdAt alone.
CompareNewestByDate(a, b) == b.createdAt - a.createdAt

\* The comparator of the newest sort.
CompareNewest(a, b) ==
    IF PinnedBit(b) # PinnedBit(a) THEN PinnedBit(b) - PinnedBit(a)
    ELSE b.createdAt - a.createdAt

\* !sortParam || sortParam === "score" ? score : newest
SortMode(sortParam) == IF sortParam = "" \/ sortParam = "score" THEN "score" ELSE "newest"

Compare(mode, a, b) == IF mode = "score" THEN CompareScore(a, b) ELSE CompareNewest(a, b)

\* Array.prototype.sort: a stable sort by the comparator (insertion of each element
\* after the elements that do not compare greater than it).
RECURSIVE InsertSorted(_, _, _)
InsertSorted(mode, s, x) ==
    IF Len(s) = 0 THEN <<x>>
    ELSE IF Compare(mode, Head(s), x) <= 0
         THEN <<Head(s)>> \o InsertSorted(mode, Tail(s), x)
         ELSE <<x>> \o s

RECURSIVE SortItems(_, _, _)
SortItems(mode, done, rest) ==
    IF Len(rest) = 0 THEN done
    ELSE SortItems(mode, InsertSorted(mode, done, Head(rest)), Tail(rest))

\* A voter id generateVoterId() returns: it is no browser's cookie.
FreshVoter == "vnew"

\* GET /api/events/[eventId]/questions; cookie: the caller's voter cookie, "" absent.
\* The event is looked up first: 404 when it does not exist.
ListQuestions(sortParam, isAdmin, cookie) ==
    LET voterId == IF cookie = "" THEN FreshVoter ELSE cookie
    IN  IF ~event.exists
        THEN /\ resp' = Plain("list", 404)
             /\ UNCHANGED <<event, questions, votes, now, req>>
        ELSE
        \E found \in FindMany(questions, isAdmin) :
           LET enriched == [i \in 1..Len(found) |-> Enrich(questions, votes, found[i], voterId)]
           IN  /\ resp' = [op |-> "list", status |-> 200, isAdmin |-> isAdmin,
                           mode |-> SortMode(sortParam), voter |-> voterId,
                           questions |-> SortItems(SortMode(sortParam), <<>>, enriched)]
               /\ UNCHANGED <<event, questions, votes, now, req>>

\* ------------------------------------------------------------------ Spec
Next ==
    \/ \E q \in LedgerIds, v \in Voters, raw \in RawValues :
          CastVote(q, v, raw) /\ Track(q, v, raw)
    \/ \E textOk \in BOOLEAN : SubmitQuestion("va", textOk, LedgerQuestions) /\ HistReset
    \/ \E q \in LedgerIds, isAdmin \in BOOLEAN : AnswerQuestion(q, isAdmin) /\ HistReset
    \/ \E q \in LedgerIds, isAdmin \in BOOLEAN : ReopenQuestion(q, isAdmin) /\ HistReset
    \/ \E isAdmin \in BOOLEAN, ia \in Tri, ivo \in Tri :
          AdminPatchEvent(isAdmin, ia, ivo) /\ HistReset
    \/ \E kind \in {"close", "edit", "invalid"}, ivo \in Tri :
          TeamPatchEvent(kind, ivo) /\ HistReset
    \/ \E sortParam \in {"", "newest"}, isAdmin \in BOOLEAN, cookie \in Voters \cup {""} :
          ListQuestions(sortParam, isAdmin, cookie) /\ HistReset

Spec == Init /\ [][Next]_vars

\* ------------------------------------------------------------------ SpecFilter, SpecList
\* In both the votes are those of va.
\* SpecFilter: questions are answered, reopened, hidden, unhidden, pinned and
\* unpinned by requests with and without a valid admin session; va upvotes and
\* clears; the list is polled as host and as participant from va's browser (Spec
\* has the polls of the other browsers and the newest mode).
NextFilter ==
    \/ \E q \in QuestionIds, raw \in {0, 1} : CastVote(q, "va", raw) /\ UNCHANGED <<hist, browser, aside>>
    \/ SubmitQuestion("va", TRUE, MaxQuestions) /\ UNCHANGED <<hist, browser, aside>>
    \/ \E q \in QuestionIds, isAdmin \in BOOLEAN : AnswerQuestion(q, isAdmin) /\ UNCHANGED <<hist, browser, aside>>
    \/ \E q \in QuestionIds, isAdmin \in BOOLEAN : ReopenQuestion(q, isAdmin) /\ UNCHANGED <<hist, browser, aside>>
    \/ \E q \in QuestionIds, isAdmin \in BOOLEAN : HideQuestion(q, isAdmin) /\ UNCHANGED <<hist, browser, aside>>
    \/ \E q \in QuestionIds, isAdmin \in BOOLEAN : UnhideQuestion(q, isAdmin) /\ UNCHANGED <<hist, browser, aside>>
    \/ \E q \in QuestionIds, isAdmin \in BOOLEAN : PinQuestion(q, isAdmin) /\ UNCHANGED <<hist, browser, aside>>
    \/ \E q \in QuestionIds, isAdmin \in BOOLEAN : UnpinQuestion(q, isAdmin) /\ UNCHANGED <<hist, browser, aside>>
    \/ \E isAdmin \in BOOLEAN : ListQuestions("", isAdmin, "va") /\ UNCHANGED <<hist, browser, aside>>

SpecFilter == InitTeam /\ [][NextFilter]_vars

\* SpecList: questions are created and pinned (by the host) at different times, and
\* voted on; the list is polled from va's browser.
NextList ==
    \/ \E q \in QuestionIds, raw \in {-1, 0, 1} : CastVote(q, "va", raw) /\ UNCHANGED <<hist, browser, aside>>
    \/ SubmitQuestion("va", TRUE, MaxQuestions) /\ UNCHANGED <<hist, browser, aside>>
    \/ \E q \in QuestionIds : PinQuestion(q, TRUE) /\ UNCHANGED <<hist, browser, aside>>
    \/ \E q \in QuestionIds : UnpinQuestion(q, TRUE) /\ UNCHANGED <<hist, browser, aside>>
    \/ Tick /\ UNCHANGED <<hist, browser, aside>>
    \/ \E sortParam \in {"", "newest"} :
          ListQuestions(sortParam, FALSE, "va") /\ UNCHANGED <<hist, browser, aside>>

SpecList == InitTeam /\ [][NextList]_vars

\* ------------------------------------------------------------------ SpecEdit
\* Minutes of the server clock under SpecEdit (times 1..MaxClock).
MaxClock == 4

\* A minute passes.
TickMinute ==
    /\ now < MaxClock
    /\ now' = now + 1
    /\ resp' = NoResp
    /\ UNCHANGED <<event, questions, votes, req>>

\* The history of an edit or retract, taken in the same step: a refusal as too late
\* is remembered for the question.
TrackExpired ==
    /\ expired' = IF resp'.error = "WindowExpired" THEN expired \cup {resp'.q} ELSE expired
    /\ UNCHANGED <<lastAccepted, twice, scen, browser, aside>>

\* Questions are submitted from va's browser, edited and retracted by va, by vb and
\* without a cookie, and answered and pinned by the host (hiding is the same
\* update as pinning, of a flag in place of a time: SpecFilter has it).
NextEdit ==
    \/ SubmitQuestion("va", TRUE, LedgerQuestions) /\ UNCHANGED <<hist, browser, aside>>
    \/ \E q \in LedgerIds, cookie \in {"va", "vb", ""}, text \in {"", EditedText} :
          EditQuestion(q, cookie, text) /\ TrackExpired
    \/ \E q \in LedgerIds, cookie \in {"va", "vb", ""} :
          RetractQuestion(q, cookie) /\ TrackExpired
    \/ \E q \in LedgerIds : AnswerQuestion(q, TRUE) /\ UNCHANGED <<hist, browser, aside>>
    \/ \E q \in LedgerIds : PinQuestion(q, TRUE) /\ UNCHANGED <<hist, browser, aside>>
    \/ TickMinute /\ UNCHANGED <<hist, browser, aside>>

SpecEdit == InitTeam /\ [][NextEdit]_vars

\* ------------------------------------------------------------------ SpecClient
\* The event page of va's browser (EventPage), its list poll and its vote clicks,
\* against the route handlers; vb votes from another browser and the host marks
\* the question answered and reopens it.
\* SpecClient follows one question of the page: the merge, the guard, the update
\* and the revert treat each question of the list on its own.
ShownIds == {1}

\* The server's copy of a question in a list response, as the page keeps it.
ServerCopy(item) == [present |-> TRUE, score |-> item.score, myVote |-> item.myVote]

\* The element of a list response for question q, if any.
ItemsOf(items, q) == {item \in {items[i] : i \in 1..Len(items)} : item.id = q}

\* Mutant: the merge takes the server copy of every question.
MergeServerWins(loc, items, voting) ==
    [q \in QuestionIds |->
        IF ItemsOf(items, q) = {} THEN NoLocal
        ELSE ServerCopy(CHOOSE item \in ItemsOf(items, q) : TRUE)]

\* Mutant: the merge keeps the page's copy of every question it shows.
MergeKeepLocal(loc, items, voting) ==
    [q \in QuestionIds |->
        IF ItemsOf(items, q) = {} THEN NoLocal
        ELSE IF loc[q].present THEN loc[q]
        ELSE ServerCopy(CHOOSE item \in ItemsOf(items, q) : TRUE)]

\* The updater of fetchQuestions: data.questions.map(serverQ =>
\* votingIdsRef.current.has(serverQ.id) ? localMap.get(serverQ.id) ?? serverQ : serverQ).
\* A question the response does not list is not in the result.
Merge(loc, items, voting) ==
    [q \in QuestionIds |->
        IF ItemsOf(items, q) = {} THEN NoLocal
        ELSE LET serverQ == ServerCopy(CHOOSE item \in ItemsOf(items, q) : TRUE)
             IN  IF q \in voting /\ loc[q].present THEN loc[q] ELSE serverQ]

\* fetchQuestions, up to its await: the GET reaches the list handler. postWrite
\* (history) names the questions whose vote request the server had handled by then;
\* overtaken (history) those whose vote the server applies while the response is on
\* its way, and done (history) those of them whose vote request has completed.
PollFetch ==
    /\ ~poll.sent
    /\ ListQuestions("", FALSE, "va")
    /\ poll' = [sent |-> TRUE, questions |-> resp'.questions,
                postWrite |-> {q \in QuestionIds :
                                 \E i \in 1..Len(calls[q]) : calls[q][i].pc # "sent"},
                overtaken |-> {}, done |-> {}]
    /\ UNCHANGED <<hist, aside, local, inFlight, calls>>

\* fetchQuestions, after its await: the response is merged into the page's state.
\* A call in flight notes (history) that a list older than its write was merged.
PollMerge ==
    /\ poll.sent
    /\ local' = Merge(local, poll.questions, inFlight)
    /\ calls' = [q \in QuestionIds |->
                    [i \in 1..Len(calls[q]) |->
                        IF q \in inFlight /\ q \notin poll.postWrite
                           /\ ItemsOf(poll.questions, q) # {}
                        THEN [calls[q][i] EXCEPT !.stale = TRUE]
                        ELSE calls[q][i]]]
    /\ poll' = NoPoll
    /\ resp' = NoResp
    /\ UNCHANGED <<event, questions, votes, now, req, hist, aside, inFlight>>

\* The calls one question can have outstanding in the model: one more than the
\* guard of handleVote allows.
CallCap == 2

\* Mutant: handleVote without its guard.
HandleVoteGuardOff(voting, q) == FALSE

\* if (votingIdsRef.current.has(questionId)) return
HandleVoteGuard(voting, q) == q \in voting

\* handleVote(questionId, clicked), up to its await: the guard, the optimistic
\* update and the request. `before` (history) is what the page showed at the click.
Click(q, clicked) ==
    /\ local[q].present
    /\ Len(calls[q]) < CallCap
    /\ IF HandleVoteGuard(inFlight, q)
       THEN UNCHANGED vars
       ELSE LET prev == local[q].myVote
                next == IF clicked = prev THEN 0 ELSE clicked
                delta == next - prev
            IN  /\ inFlight' = inFlight \cup {q}
                /\ local' = [local EXCEPT ![q].score = @ + delta, ![q].myVote = next]
                /\ calls' = [calls EXCEPT ![q] = Append(@,
                                [pc |-> "sent", prev |-> prev, next |-> next, delta |-> delta,
                                 status |-> 0, score |-> 0, myVote |-> 0,
                                 before |-> local[q], stale |-> FALSE])]
                /\ resp' = NoResp
                /\ UNCHANGED <<event, questions, votes, now, req, hist, aside, poll>>

\* The vote request of a call reaches the vote handler.
ServeVote(q, i) ==
    /\ i \in 1..Len(calls[q])
    /\ calls[q][i].pc = "sent"
    /\ CastVote(q, "va", calls[q][i].next)
    /\ calls' = [calls EXCEPT ![q][i] = [@ EXCEPT !.pc = "answered", !.status = resp'.status,
                                                   !.score = resp'.score, !.myVote = resp'.myVote]]
    /\ poll' = IF poll.sent /\ resp'.status = 200
               THEN [poll EXCEPT !.overtaken = @ \cup {q}] ELSE poll
    /\ UNCHANGED <<hist, aside, local, inFlight>>

\* The fetch of a call rejects (network error), before or after the server has
\* handled the request.
NetworkError(q, i) ==
    /\ i \in 1..Len(calls[q])
    /\ calls[q][i].pc \in {"sent", "answered"}
    /\ calls' = [calls EXCEPT ![q][i].pc = "failed"]
    /\ resp' = NoResp
    /\ UNCHANGED <<event, questions, votes, now, req, hist, aside, local, inFlight, poll>>

\* The sequence s without its i-th element.
RemoveAt(s, i) == [j \in 1..(Len(s) - 1) |-> IF j < i THEN s[j] ELSE s[j + 1]]

\* What handleVote got from its fetch: the response's status, 0 for a rejected
\* fetch, with the call's record.
Outcome(q, call) ==
    [op |-> "resolve", status |-> IF call.pc = "failed" THEN 0 ELSE call.status, q |-> q,
     score |-> call.score, myVote |-> call.myVote, prev |-> call.prev, delta |-> call.delta,
     before |-> call.before, stale |-> call.stale]

\* History: the vote request of `call` completed with a 200 while a list response
\* read before the vote was applied is on its way.
Completed(q, call) ==
    IF call.pc = "answered" /\ call.status = 200 /\ q \in poll.overtaken
    THEN [poll EXCEPT !.done = @ \cup {q}] ELSE poll

\* Mutant: clearVoting runs only after a 2xx response.
ResolveClearOnOk(q, i) ==
    /\ i \in 1..Len(calls[q])
    /\ calls[q][i].pc \in {"answered", "failed"}
    /\ LET call == calls[q][i]
       IN  /\ local' =
                IF ~local[q].present THEN local
                ELSE IF call.pc = "failed"
                     THEN [local EXCEPT ![q].score = @ - call.delta, ![q].myVote = call.prev]
                ELSE IF call.status = 200
                     THEN [local EXCEPT ![q].score = call.score, ![q].myVote = call.myVote]
                ELSE local
           /\ inFlight' = IF call.pc = "answered" /\ call.status = 200
                          THEN inFlight \ {q} ELSE inFlight
    /\ resp' = Outcome(q, calls[q][i])
    /\ calls' = [calls EXCEPT ![q] = RemoveAt(@, i)]
    /\ poll' = Completed(q, calls[q][i])
    /\ UNCHANGED <<event, questions, votes, now, req, hist, aside>>

\* Mutant: res.ok sets nothing, the next poll is left to bring the values.
ResolveWithoutUpdate(q, i) ==
    /\ i \in 1..Len(calls[q])
    /\ calls[q][i].pc \in {"answered", "failed"}
    /\ LET call == calls[q][i]
       IN  /\ local' =
                IF ~local[q].present THEN local
                ELSE IF call.pc = "failed"
                     THEN [local EXCEPT ![q].score = @ - call.delta, ![q].myVote = call.prev]
                ELSE local
           /\ resp' = Outcome(q, call)
    /\ inFlight' = inFlight \ {q}
    /\ calls' = [calls EXCEPT ![q] = RemoveAt(@, i)]
    /\ poll' = Completed(q, calls[q][i])
    /\ UNCHANGED <<event, questions, votes, now, req, hist, aside>>

\* handleVote after its await: res.ok sets the response's score and myVote, another
\* status sets nothing, a rejected fetch takes the delta back; finally clearVoting.
Resolve(q, i) ==
    /\ i \in 1..Len(calls[q])
    /\ calls[q][i].pc \in {"answered", "failed"}
    /\ LET call == calls[q][i]
       IN  local' =
             IF ~local[q].present THEN local
             ELSE IF call.pc = "failed"
                  THEN [local EXCEPT ![q].score = @ - call.delta, ![q].myVote = call.prev]
             ELSE IF call.status = 200
                  THEN [local EXCEPT ![q].score = call.score, ![q].myVote = call.myVote]
             ELSE local
    /\ resp' = Outcome(q, calls[q][i])
    /\ inFlight' = inFlight \ {q}
    /\ calls' = [calls EXCEPT ![q] = RemoveAt(@, i)]
    /\ poll' = Completed(q, calls[q][i])
    /\ UNCHANGED <<event, questions, votes, now, req, hist, aside>>

NextClient ==
    \/ SubmitQuestion("va", TRUE, Cardinality(ShownIds)) /\ UNCHANGED <<hist, browser, aside>>
    \/ \E q \in ShownIds, raw \in {0, 1} : CastVote(q, "vb", raw) /\ UNCHANGED <<hist, browser, aside>>
    \/ \E q \in ShownIds : AnswerQuestion(q, TRUE) /\ UNCHANGED <<hist, browser, aside>>
    \/ \E q \in ShownIds : ReopenQuestion(q, TRUE) /\ UNCHANGED <<hist, browser, aside>>
    \/ PollFetch
    \/ PollMerge
    \/ \E q \in ShownIds, clicked \in {1, -1} : Click(q, clicked)
    \/ \E q \in ShownIds, i \in 1..CallCap : ServeVote(q, i)
    \/ \E q \in ShownIds, i \in 1..CallCap : NetworkError(q, i)
    \/ \E q \in ShownIds, i \in 1..CallCap : Resolve(q, i)

SpecClient == InitTeam /\ [][NextClient]_vars

\* ------------------------------------------------------------------ SpecCascade
\* prisma.event.delete: the row is deleted, and its questions and their votes with it.
DeleteEvent ==
    /\ event' = [event EXCEPT !.exists = FALSE]
    /\ questions' = CascadeQuestions(questions)
    /\ votes' = CascadeVotes(votes, QuestionIds)

\* DELETE /api/events/[eventId]: a team event is deleted by anyone.
TeamDeleteEvent ==
    /\ UNCHANGED <<now, req>>
    /\ \/ /\ ~event.exists
          /\ resp' = Plain("teamDelete", 404)
          /\ UNCHANGED <<event, questions, votes>>
       \/ /\ event.exists
          /\ event.type # "team"
          /\ resp' = Plain("teamDelete", 403)
          /\ UNCHANGED <<event, questions, votes>>
       \/ /\ event.exists
          /\ event.type = "team"
          /\ DeleteEvent
          /\ resp' = Plain("teamDelete", 200)

\* DELETE /api/admin/events with the id of the event in the body; deleting a row that
\* does not exist throws (500).
AdminDeleteEvent(isAdmin) ==
    /\ UNCHANGED <<now, req>>
    /\ \/ /\ ~isAdmin
          /\ resp' = Plain("adminDelete", 401)
          /\ UNCHANGED <<event, questions, votes>>
       \/ /\ isAdmin
          /\ ~event.exists
          /\ resp' = Plain("adminDelete", 500)
          /\ UNCHANGED <<event, questions, votes>>
       \/ /\ isAdmin
          /\ event.exists
          /\ DeleteEvent
          /\ resp' = Plain("adminDelete", 200)

\* Votes (split at their awaits), submissions and retractions race the deletion of
\* the event, a team event or a company event.
NextCascade ==
    \/ \E r \in Requests, q \in LedgerIds, v \in Voters, raw \in {0, 1} :
          VoteLookup(r, q, v, raw) /\ UNCHANGED <<hist, browser, aside>>
    \/ \E r \in Requests : VoteWrite(r) /\ UNCHANGED <<hist, browser, aside>>
    \/ \E r \in Requests : VoteAggregate(r) /\ UNCHANGED <<hist, browser, aside>>
    \/ SubmitQuestion("va", TRUE, LedgerQuestions) /\ UNCHANGED <<hist, browser, aside>>
    \/ \E q \in LedgerIds, cookie \in Voters :
          RetractQuestion(q, cookie) /\ UNCHANGED <<hist, browser, aside>>
    \/ TeamDeleteEvent /\ UNCHANGED <<hist, browser, aside>>
    \/ \E isAdmin \in BOOLEAN : AdminDeleteEvent(isAdmin) /\ UNCHANGED <<hist, browser, aside>>
    \/ ListQuestions("", FALSE, "va") /\ UNCHANGED <<hist, browser, aside>>

SpecCascade == Init /\ [][NextCascade]_vars

\* ------------------------------------------------------------------ SpecIdentity
\* How requests get their voter identity: a browser with a cookie jar, whose tabs
\* load the site and then call the vote, list and submit endpoints, and a client
\* that keeps no cookies and calls the endpoints directly. Every request passes the
\* middleware and then its route handler.

\* generateVoterId(): an id that was never generated before (crypto.randomUUID()).
\* The ids are those the ledger of the model has columns for.
GenerateVoterId(minted) == Voters \ minted

\* middleware, voter ID cookie injection: the value set on the response of a request
\* carrying `cookie`, `generated` being what generateVoterId() returns; "" when no
\* cookie is set.
Middleware(cookie, generated) == IF cookie = "" THEN generated ELSE ""

\* The vote and list handlers: resolve or create the voter id.
ResolveVoter(cookie, generated) == IF cookie = "" THEN generated ELSE cookie
IsNewVoter(cookie) == cookie = ""

\* A request of kind "vote", "list" or "submit" carrying the voter cookie `cookie`
\* ("" for none) is served: the middleware runs (m: the id it generates, if any), then
\* the route handler (h: the id it generates, if any). The vote handler sets its
\* cookie on the 200 response only; the submit handler generates no id.
Serve(kind, cookie, m, h, q, raw) ==
    /\ \/ /\ kind = "vote"
          /\ CastVote(q, ResolveVoter(cookie, h), raw)
       \/ /\ kind = "list"
          /\ ListQuestions("", FALSE, cookie)
       \/ /\ kind = "submit"
          /\ SubmitQuestion(cookie, TRUE, LedgerQuestions)
    /\ LET voterId == IF resp'.status \notin {200, 201} THEN ""
                      ELSE IF kind = "vote" THEN resp'.v
                      ELSE IF kind = "list" THEN resp'.voter
                      ELSE cookie
           set == IF kind # "submit" /\ IsNewVoter(cookie) /\ resp'.status = 200
                  THEN voterId ELSE ""
       IN  visitor' = [visitor EXCEPT
                         !.minted = @ \cup ({m, h} \ {""}),
                         !.exchange = [cookie |-> cookie,
                                       middleware |-> Middleware(cookie, m),
                                       handler |-> set,
                                       voterId |-> voterId],
                         !.sentAs = IF kind = "vote" /\ cookie # "" /\ resp'.status = 200
                                    THEN @ \cup {voterId} ELSE @]

\* A tab navigates to the site: the document request leaves, carrying the voter
\* cookie of the jar if there is one.
OpenTab(t) ==
    /\ visitor.tabs[t] = "closed"
    /\ visitor' = [visitor EXCEPT
                     !.tabs[t] = IF visitor.jar = "" THEN "bare" ELSE "carrying"]
    /\ UNCHANGED <<event, questions, votes, now, req, resp>>

\* The document request of tab t passes the middleware and the response arrives:
\* the browser stores the cookie the response sets (pages set none themselves).
LoadDocument(t) ==
    /\ visitor.tabs[t] \in {"bare", "carrying"}
    /\ \/ /\ visitor.tabs[t] = "carrying"
          /\ visitor' = [visitor EXCEPT
                           !.tabs[t] = "loaded",
                           !.exchange = [NoExchange EXCEPT
                                           !.cookie = visitor.jar,
                                           !.middleware = Middleware(visitor.jar, "")]]
       \/ /\ visitor.tabs[t] = "bare"
          /\ \E m \in GenerateVoterId(visitor.minted) :
                visitor' = [visitor EXCEPT
                              !.tabs[t] = "loaded",
                              !.jar = Middleware("", m),
                              !.minted = @ \cup {m},
                              !.exchange = [NoExchange EXCEPT
                                              !.middleware = Middleware("", m)]]
    /\ UNCHANGED <<event, questions, votes, now, req, resp>>

\* The scripts of a loaded tab call an endpoint: the request carries the jar's cookie.
BrowserRequest(t, kind, q, raw) ==
    /\ visitor.tabs[t] = "loaded"
    /\ Serve(kind, visitor.jar, "", "", q, raw)

\* A client that keeps no cookies calls an endpoint: the middleware generates an id,
\* and so do the vote and list handlers (the list handler's is FreshVoter).
ApiRequest(kind, q, raw) ==
    \E m \in GenerateVoterId(visitor.minted) :
       \/ /\ kind = "vote"
          /\ \E h \in GenerateVoterId(visitor.minted \cup {m}) : Serve(kind, "", m, h, q, raw)
       \/ /\ kind # "vote"
          /\ Serve(kind, "", m, "", q, raw)

\* The kinds of request, and the bodies of the vote requests.
Kinds == {"vote", "list", "submit"}

NextIdentity ==
    \/ \E t \in Tabs : OpenTab(t) /\ UNCHANGED <<hist, browser, presenter, caller>>
    \/ \E t \in Tabs : LoadDocument(t) /\ UNCHANGED <<hist, browser, presenter, caller>>
    \/ \E t \in Tabs, kind \in Kinds, q \in LedgerIds, raw \in {0, 1} :
          BrowserRequest(t, kind, q, raw) /\ UNCHANGED <<hist, browser, presenter, caller>>
    \/ \E kind \in Kinds, q \in LedgerIds, raw \in {0, 1} :
          ApiRequest(kind, q, raw) /\ UNCHANGED <<hist, browser, presenter, caller>>

SpecIdentity == InitTeam /\ [][NextIdentity]_vars

\* ------------------------------------------------------------------ SpecPresenter
\* The presenter page (a host's browser, admin session): its poll, mark answered and
\* undo, against the list and answer handlers; another host answers and reopens.

\* The updater of the presenter's fetchQuestions: data.questions.map(q =>
\* prevById[q.id]?.status === "ANSWERED" && q.status === "OPEN" ? prevById[q.id] : q).
\* A question the response does not list is not in the result.
PresenterMerge(prev, items) ==
    [q \in QuestionIds |->
        IF ItemsOf(items, q) = {} THEN "none"
        ELSE LET serverQ == CHOOSE item \in ItemsOf(items, q) : TRUE
             IN  IF prev[q] = "ANSWERED" /\ serverQ.status = "OPEN"
                 THEN prev[q] ELSE serverQ.status]

\* fetchQuestions of the presenter page: GET ...?sort=score with the admin cookie,
\* and the merge of the response.
PresenterPoll ==
    /\ ListQuestions("score", TRUE, "")
    /\ presenter' = [presenter EXCEPT !.status = PresenterMerge(@, resp'.questions)]

\* markAnswered(questionId): the optimistic ANSWERED, the undo entry and the POST.
\* outcome: "ok" (the fetch resolves), "lost" (it rejects, the request never reached
\* the handler) or "cut" (it rejects after the handler ran); a rejected fetch takes
\* the optimistic update and the undo entry back.
MarkAnswered(q, outcome) ==
    /\ presenter.status[q] = "OPEN"
    /\ IF outcome = "lost"
       THEN UNCHANGED <<event, questions, votes, now, req>> /\ resp' = NoResp
       ELSE AnswerQuestion(q, TRUE)
    /\ presenter' =
         IF outcome = "ok"
         THEN [presenter EXCEPT !.status[q] = "ANSWERED", !.undoQueue = @ \cup {q}]
         ELSE [presenter EXCEPT !.status[q] = "OPEN", !.undoQueue = @ \ {q}]

\* undoAnswered(questionId), offered for the entries of the undo queue: the entry is
\* removed, the question is OPEN again on the page, and the DELETE is sent.
UndoAnswered(q) ==
    /\ q \in presenter.undoQueue
    /\ ReopenQuestion(q, TRUE)
    /\ presenter' = [presenter EXCEPT
                       !.status[q] = IF @ = "none" THEN @ ELSE "OPEN",
                       !.undoQueue = @ \ {q}]

\* The ticker prunes an undo entry whose deadline (10 s) has passed.
PruneUndo(q) ==
    /\ q \in presenter.undoQueue
    /\ presenter' = [presenter EXCEPT !.undoQueue = @ \ {q}]
    /\ UNCHANGED <<event, questions, votes, now, req, resp>>

NextPresenter ==
    \/ SubmitQuestion("va", TRUE, MaxQuestions) /\ UNCHANGED <<hist, browser, aside>>
    \/ \E q \in QuestionIds : AnswerQuestion(q, TRUE) /\ UNCHANGED <<hist, browser, aside>>
    \/ \E q \in QuestionIds : ReopenQuestion(q, TRUE) /\ UNCHANGED <<hist, browser, aside>>
    \/ PresenterPoll /\ UNCHANGED <<hist, browser, visitor, caller>>
    \/ \E q \in QuestionIds, outcome \in {"ok", "lost", "cut"} :
          MarkAnswered(q, outcome) /\ UNCHANGED <<hist, browser, visitor, caller>>
    \/ \E q \in QuestionIds : UndoAnswered(q) /\ UNCHANGED <<hist, browser, visitor, caller>>
    \/ \E q \in QuestionIds : PruneUndo(q) /\ UNCHANGED <<hist, browser, visitor, caller>>

SpecPresenter == InitTeam /\ [][NextPresenter]_vars

\* ------------------------------------------------------------------ SpecAnon
\* Questions are submitted without a voter cookie, or from va's browser; va, vb and
\* callers without cookie try to edit and retract them, inside the edit window and
\* after it; va and vb vote.
NextAnon ==
    \/ \E cookie \in {"", "va"} :
          SubmitQuestion(cookie, TRUE, LedgerQuestions) /\ UNCHANGED <<hist, browser, aside>>
    \/ \E q \in LedgerIds, cookie \in {"va", "vb", ""}, text \in {"", EditedText} :
          EditQuestion(q, cookie, text) /\ UNCHANGED <<hist, browser, aside>>
    \/ \E q \in LedgerIds, cookie \in {"va", "vb", ""} :
          RetractQuestion(q, cookie) /\ UNCHANGED <<hist, browser, aside>>
    \/ \E q \in LedgerIds, v \in Voters, raw \in {0, 1} :
          CastVote(q, v, raw) /\ UNCHANGED <<hist, browser, aside>>
    \/ TickMinute /\ UNCHANGED <<hist, browser, aside>>

SpecAnon == InitTeam /\ [][NextAnon]_vars

\* ------------------------------------------------------------------ SpecAuth
\* One caller logs in with the site password, with the admin password or with wrong
\* ones, and sends host-only requests with a session cookie of its choice.

\* createSessionToken(): TOKEN_VALUE, a dot and the HMAC of TOKEN_VALUE under
\* ADMIN_SESSION_SECRET; the same string on every call.
CreateSessionToken == "authenticated.sig"

\* A token with another signature, as a caller can make up.
ForgedToken == "authenticated.bad"

\* verifySessionToken(token): the value is TOKEN_VALUE and the signature is the HMAC.
VerifySessionToken(token) == token = CreateSessionToken

\* token ? await verifySessionToken(token) : false
IsAdmin(token) == IF token = "" THEN FALSE ELSE VerifySessionToken(token)

\* POST /api/site-auth: the site password gives the ama_site_session cookie.
SiteLogin(passwordOk) ==
    /\ resp' = Plain("siteAuth", IF passwordOk THEN 200 ELSE 401)
    /\ caller' = IF passwordOk THEN [caller EXCEPT !.site = CreateSessionToken] ELSE caller
    /\ UNCHANGED <<event, questions, votes, now, req>>

\* POST /api/admin/login: the admin password gives the ama_admin_session cookie.
AdminLogin(passwordOk) ==
    /\ resp' = Plain("adminLogin", IF passwordOk THEN 200 ELSE 401)
    /\ caller' = IF passwordOk
                 THEN [caller EXCEPT !.admin = CreateSessionToken, !.gaveAdminPassword = TRUE]
                 ELSE caller
    /\ UNCHANGED <<event, questions, votes, now, req>>

\* The values the caller can send as ama_admin_session: none, a made-up token, or a
\* token one of its logins gave it.
Sendable == {"", ForgedToken, caller.site, caller.admin}

\* middleware, site-wide password protection: the request goes on to its handler.
SiteGate == IsAdmin(caller.site)

\* A host-only request of the caller with ama_admin_session = token; it reaches its
\* handler behind the site-wide password protection.
HostRequest(kind, q, token) ==
    /\ token \in Sendable
    /\ SiteGate
    /\ \/ kind = "answer" /\ AnswerQuestion(q, IsAdmin(token))
       \/ kind = "reopen" /\ ReopenQuestion(q, IsAdmin(token))
       \/ kind = "hide" /\ HideQuestion(q, IsAdmin(token))
       \/ kind = "unhide" /\ UnhideQuestion(q, IsAdmin(token))
       \/ kind = "pin" /\ PinQuestion(q, IsAdmin(token))
       \/ kind = "unpin" /\ UnpinQuestion(q, IsAdmin(token))
       \/ kind = "adminPatch" /\ \E ia \in {"true", "false"} :
                                    AdminPatchEvent(IsAdmin(token), ia, "absent")
       \/ kind = "adminDelete" /\ AdminDeleteEvent(IsAdmin(token))
    /\ UNCHANGED caller

\* The host-only requests.
HostKinds == {"answer", "reopen", "hide", "unhide", "pin", "unpin", "adminPatch", "adminDelete"}

NextAuth ==
    \/ \E passwordOk \in BOOLEAN : SiteLogin(passwordOk) /\ UNCHANGED <<hist, browser, visitor, presenter>>
    \/ \E passwordOk \in BOOLEAN : AdminLogin(passwordOk) /\ UNCHANGED <<hist, browser, visitor, presenter>>
    \/ \E kind \in HostKinds, q \in LedgerIds, token \in {"", ForgedToken, CreateSessionToken} :
          HostRequest(kind, q, token) /\ UNCHANGED <<hist, browser, visitor, presenter>>
    \/ SubmitQuestion("va", TRUE, LedgerQuestions) /\ UNCHANGED <<hist, browser, aside>>

SpecAuth == Init /\ [][NextAuth]_vars

\* ------------------------------------------------------------------ claims
\* The sum of a question's stored vote values, counted row by row.
LedgerSum(vs, q) ==
    LET Slots == Voters \X (1..(2 * Cardinality(Requests) + 2))
    IN  Cardinality({k \in Slots : k[2] <= Len(vs[q, k[1]]) /\ vs[q, k[1]][k[2]] = 1})
        - Cardinality({k \in Slots : k[2] <= Len(vs[q, k[1]]) /\ vs[q, k[1]][k[2]] = -1})

\* C1: after any sequence of vote calls there is at most one vote row per
\* (question, voter); the row holds the last non-zero value accepted for the pair,
\* and there is no row when the last accepted call had value 0.
C1_OneRowLastValue ==
    \A q \in QuestionIds, v \in Voters :
        /\ Len(votes[q, v]) <= 1
        /\ lastAccepted[q, v] = 0 => votes[q, v] = <<>>
        /\ lastAccepted[q, v] # 0 => votes[q, v] = <<lastAccepted[q, v]>>

\* C1 witness: a voter has switched to -1 and the other has cast +1 and then cleared.
C1_Witness ==
    \E q \in QuestionIds :
        /\ votes[q, "va"] = <<-1>> /\ lastAccepted[q, "va"] = -1
        /\ votes[q, "vb"] = <<>>
        /\ scen.stage = 2 /\ scen.q = q /\ scen.v = "vb"
        /\ resp.op = "vote" /\ resp.status = 200 /\ resp.value = 0

\* C2: two vote requests of one voter on one question, in flight together with
\* different values, never leave two rows for the pair, and once both have written
\* the row, if any, holds the value of one of them.
C2_ConcurrentOneRow ==
    /\ \A q \in QuestionIds, v \in Voters : Len(votes[q, v]) <= 1
    /\ \A r1 \in Requests : \A r2 \in Requests \ {r1} :
         ( /\ req[r1].pc = "written" /\ req[r2].pc = "written"
           /\ req[r1].q = req[r2].q /\ req[r1].v = req[r2].v
           /\ req[r1].value # req[r2].value )
         => \/ votes[req[r1].q, req[r1].v] = <<>> /\ 0 \in {req[r1].value, req[r2].value}
            \/ \E val \in {req[r1].value, req[r2].value} \ {0} :
                  votes[req[r1].q, req[r1].v] = <<val>>

\* C2 witness: both requests have written, one +1 and one -1, for the same pair.
C2_Witness ==
    /\ req["r1"].pc = "written" /\ req["r2"].pc = "written"
    /\ req["r1"].q = req["r2"].q /\ req["r1"].v = req["r2"].v
    /\ req["r1"].value = 1 /\ req["r2"].value = -1

\* C4: while the event's isVotingOpen is false, a vote call with a value in
\* {-1, 0, +1} on a question of the event fails.
C4_VotingClosedRejects ==
    ( /\ resp.op = "vote" /\ resp.value \in {-1, 0, 1}
      /\ questions[resp.q].exists
      /\ ~event.isVotingOpen )
    => resp.status # 200

\* C5: a vote row is created, changed or deleted only for a question that exists
\* and is OPEN, also when the host answers the question while the vote is in flight.
C5_RowsOnlyForOpen ==
    [][\A q \in QuestionIds, v \in Voters :
          votes'[q, v] # votes[q, v] => (questions[q].exists /\ questions[q].status = "OPEN")]_vars

\* C6: once the event is CLOSED, every submitQuestion and castVote is rejected.
C6_ClosedEventRejects ==
    (event.status = "CLOSED" /\ resp.op \in {"vote", "submit"})
    => resp.status \notin {200, 201}

\* C7: a vote call with value +1 or -1 repeated right after an identical accepted
\* call returns the same score and leaves the question's rows as the first left them.
C7_RepeatIdempotent ==
    twice.on => (resp.score = twice.score /\ QRows(votes, resp.q) = twice.rows)

\* C7 witness: a -1 was repeated on a question another voter has voted on too.
C7_Witness ==
    /\ twice.on
    /\ resp.op = "vote" /\ resp.status = 200 /\ resp.value = -1
    /\ RowCount(votes, resp.q) = 2

\* C8: from no vote of v on q, cast +1, clear, cast +1 ends with the rows and the
\* score of the first +1; the clear leaves no row of v on q.
C8_ClearThenRecast ==
    /\ scen.stage = 2 => votes[scen.q, scen.v] = <<>>
    /\ scen.stage = 3 => (resp.score = scen.score /\ QRows(votes, scen.q) = scen.rows)

\* C8 witness: the recast has happened on a question another voter has voted on.
C8_Witness ==
    /\ scen.stage = 3
    /\ resp.op = "vote" /\ resp.status = 200 /\ resp.value = 1
    /\ \E v \in Voters \ {scen.v} : votes[scen.q, v] # <<>>

\* C3: the score a vote call returns, and the score the list shows for each
\* question, is the sum of the values of the vote rows stored for the question
\* when the handler reads them.
C3_ScoreIsLedgerSum ==
    /\ (resp.op = "vote" /\ resp.status = 200) => resp.score = LedgerSum(votes, resp.q)
    /\ resp.op = "list" =>
          \A i \in 1..Len(resp.questions) :
              resp.questions[i].score = LedgerSum(votes, resp.questions[i].id)

\* C3 witness: the list shows a question both voters have downvoted.
C3_Witness ==
    /\ resp.op = "list"
    /\ \E i \in 1..Len(resp.questions) :
          /\ resp.questions[i].score = -2
          /\ votes[resp.questions[i].id, "va"] = <<-1>>
          /\ votes[resp.questions[i].id, "vb"] = <<-1>>

\* The ids a list response names.
ListedIds == {resp.questions[i].id : i \in 1..Len(resp.questions)}

\* C9: a list for a caller who is no host names exactly the questions that are OPEN
\* and not hidden; a list for a host names every question, each with its status
\* and its hidden flag.
C9_AudienceFilter ==
    resp.op = "list" =>
       /\ Cardinality(ListedIds) = Len(resp.questions)
       /\ ~resp.isAdmin =>
             ListedIds = {q \in QuestionIds :
                             questions[q].exists /\ questions[q].status = "OPEN"
                             /\ ~questions[q].isHidden}
       /\ resp.isAdmin =>
             /\ ListedIds = {q \in QuestionIds : questions[q].exists}
             /\ \A i \in 1..Len(resp.questions) :
                   /\ resp.questions[i].isHidden = questions[resp.questions[i].id].isHidden
                   /\ resp.questions[i].status = questions[resp.questions[i].id].status

\* C9 witness: of a hidden and an answered question, the public list names neither.
C9_Witness ==
    /\ resp.op = "list" /\ ~resp.isAdmin
    /\ resp.questions = <<>>
    /\ \E q \in QuestionIds : questions[q].exists /\ questions[q].isHidden
                              /\ questions[q].status = "OPEN"
    /\ \E q \in QuestionIds : questions[q].exists /\ ~questions[q].isHidden
                              /\ questions[q].status = "ANSWERED"

\* C10: in a list, in either sort mode, no question that is not pinned comes before
\* a pinned one.
C10_PinDominance ==
    resp.op = "list" =>
       \A i \in 1..Len(resp.questions), j \in 1..Len(resp.questions) :
           i < j => ~(resp.questions[i].pinnedAt = 0 /\ resp.questions[j].pinnedAt # 0)

\* C10 witness: newest mode lists a pinned question before a newer one of higher score.
C10_Witness ==
    /\ resp.op = "list" /\ resp.mode = "newest"
    /\ Len(resp.questions) = 2
    /\ resp.questions[1].pinnedAt # 0 /\ resp.questions[2].pinnedAt = 0
    /\ resp.questions[1].createdAt < resp.questions[2].createdAt
    /\ resp.questions[1].score < resp.questions[2].score

\* C11: a list in score mode orders the pinned questions by pinnedAt descending,
\* and the questions that are not pinned by score descending, those of equal score
\* by createdAt descending.
C11_ScoreOrdering ==
    (resp.op = "list" /\ resp.mode = "score") =>
       \A i \in 1..Len(resp.questions), j \in 1..Len(resp.questions) :
           LET a == resp.questions[i]
               b == resp.questions[j]
           IN  i < j =>
                 /\ (a.pinnedAt # 0 /\ b.pinnedAt # 0) => a.pinnedAt >= b.pinnedAt
                 /\ (a.pinnedAt = 0 /\ b.pinnedAt = 0) =>
                        \/ a.score > b.score
                        \/ a.score = b.score /\ a.createdAt >= b.createdAt

\* C11 witness: score mode lists the question pinned last before an older pin of a
\* newer question.
C11_Witness ==
    /\ resp.op = "list" /\ resp.mode = "score"
    /\ Len(resp.questions) = 2
    /\ resp.questions[1].pinnedAt > resp.questions[2].pinnedAt
    /\ resp.questions[2].pinnedAt # 0
    /\ resp.questions[1].createdAt < resp.questions[2].createdAt

\* C12: a list in newest mode orders the pinned questions by pinnedAt descending, as
\* score mode does, and the questions that are not pinned by createdAt descending
\* whatever their scores.
C12_NewestOrdering ==
    (resp.op = "list" /\ resp.mode = "newest") =>
       \A i \in 1..Len(resp.questions), j \in 1..Len(resp.questions) :
           LET a == resp.questions[i]
               b == resp.questions[j]
           IN  i < j =>
                 /\ (a.pinnedAt # 0 /\ b.pinnedAt # 0) => a.pinnedAt >= b.pinnedAt
                 /\ (a.pinnedAt = 0 /\ b.pinnedAt = 0) => a.createdAt >= b.createdAt

C14_WindowStaysClosed ==
    /\ []((resp.op \in {"edit", "retract"} /\ resp.q \in expired) => resp.status # 200)
    /\ [][/\ now' >= now
          /\ \A q \in QuestionIds :
                questions[q].createdAt # 0 => questions'[q].createdAt = questions[q].createdAt]_vars

\* C14 witness: after a refusal as too late and the host's answer and pin, the
\* submitter's edit of the question is refused again.
C14_Witness ==
    /\ resp.op = "edit" /\ resp.error = "WindowExpired"
    /\ resp.q \in expired
    /\ questions[resp.q].status = "ANSWERED"
    /\ questions[resp.q].pinnedAt > questions[resp.q].createdAt + 2
    /\ questions[resp.q].text = EditedText

\* C15: answer and reopen change a question's status alone, hide and unhide its
\* hidden flag alone, pin and unpin its pinnedAt alone; none of them changes a
\* text, a createdAt or a vote row.
C15_FlagsIndependent ==
    [][\A q \in QuestionIds :
          /\ resp'.op \in {"answer", "reopen"} =>
                questions'[q] = [questions[q] EXCEPT !.status = questions'[q].status]
          /\ resp'.op \in {"hide", "unhide"} =>
                questions'[q] = [questions[q] EXCEPT !.isHidden = questions'[q].isHidden]
          /\ resp'.op \in {"pin", "unpin"} =>
                questions'[q] = [questions[q] EXCEPT !.pinnedAt = questions'[q].pinnedAt]
          /\ resp'.op \in {"answer", "reopen", "hide", "unhide", "pin", "unpin"} =>
                votes' = votes]_vars

\* C15 witness: a question is ANSWERED, hidden and pinned and has a vote, while
\* another is OPEN, shown and not pinned; the pin was the last request.
C15_Witness ==
    /\ resp.op = "pin" /\ resp.status = 200
    /\ \E q \in QuestionIds :
          /\ questions[q].exists /\ questions[q].status = "ANSWERED"
          /\ questions[q].isHidden /\ questions[q].pinnedAt # 0
          /\ votes[q, "va"] = <<1>>
    /\ \E q \in QuestionIds :
          /\ questions[q].exists /\ questions[q].status = "OPEN"
          /\ ~questions[q].isHidden /\ questions[q].pinnedAt = 0

\* The requests of the host routes made without a valid admin session.
NoSessionRequest(q) ==
    \/ AnswerQuestion(q, FALSE) \/ ReopenQuestion(q, FALSE)
    \/ HideQuestion(q, FALSE) \/ UnhideQuestion(q, FALSE)
    \/ PinQuestion(q, FALSE) \/ UnpinQuestion(q, FALSE)

\* C16: an answer, reopen, hide, unhide, pin or unpin request without a valid admin
\* session is refused with 401 and changes no question; the status, hidden flag or
\* pinnedAt of a question changes only in a step of one of these requests that
\* succeeded, which takes a valid session.
C16_HostOnly ==
    [][/\ \A q \in QuestionIds :
             NoSessionRequest(q) => (resp'.status = 401 /\ questions' = questions)
       /\ \A q \in QuestionIds :
             ( /\ questions[q].exists /\ questions'[q].exists
               /\ \/ questions'[q].status # questions[q].status
                  \/ questions'[q].isHidden # questions[q].isHidden
                  \/ questions'[q].pinnedAt # questions[q].pinnedAt )
             => /\ resp'.op \in {"answer", "reopen", "hide", "unhide", "pin", "unpin"}
                /\ resp'.status = 200
                /\ ~NoSessionRequest(q)]_vars

\* C16 witness: a pin request without a session was refused; the question is not
\* pinned, and the host had hidden and answered it before.
C16_Witness ==
    /\ resp.op = "pin" /\ resp.status = 401
    /\ \E q \in QuestionIds :
          /\ questions[q].exists /\ questions[q].pinnedAt = 0
          /\ questions[q].isHidden /\ questions[q].status = "ANSWERED"

\* C17: when a list response is merged, a question whose id is in the in-flight
\* set keeps the page's score and myVote, and a question whose id is not in it gets
\* the score and myVote of the response.
C17_PollMerge ==
    [][(poll.sent /\ ~poll'.sent) =>
          \A q \in QuestionIds : \A item \in ItemsOf(poll.questions, q) :
              /\ (q \in inFlight /\ local[q].present) => local'[q] = local[q]
              /\ q \notin inFlight =>
                    /\ local'[q].present
                    /\ local'[q].score = item.score
                    /\ local'[q].myVote = item.myVote]_vars

\* C17 witness: a list older than the write was merged while the vote is in flight,
\* and the page still shows the optimistic values, which the server's differ from.
C17_Witness ==
    \E q \in QuestionIds :
        /\ q \in inFlight /\ Len(calls[q]) = 1
        /\ calls[q][1].stale /\ calls[q][1].pc = "sent"
        /\ ~poll.sent
        /\ local[q].present
        /\ local[q].myVote = 1 /\ votes[q, "va"] = <<>>
        /\ local[q].score = calls[q][1].before.score + 1

\* C18: when the write's response (200) is handled after a list older than the write
\* was merged, the page shows the score and myVote of the write's response.
C18_WriteWins ==
    (resp.op = "resolve" /\ resp.status = 200 /\ resp.stale /\ local[resp.q].present)
    => (local[resp.q].score = resp.score /\ local[resp.q].myVote = resp.myVote)

\* C18 witness: the write's response carried a score other than the optimistic one
\* (vb had voted too) and other than the old list's.
C18_Witness ==
    /\ resp.op = "resolve" /\ resp.status = 200 /\ resp.stale
    /\ local[resp.q].present
    /\ resp.before.score = 0 /\ resp.delta = 1
    /\ resp.score = 2 /\ local[resp.q].score = 2 /\ local[resp.q].myVote = 1

\* C19: when the vote request fails with a network error, the page shows the score
\* and myVote it showed right before the click, and the question's id is out of the
\* in-flight set, whatever lists were merged in between.
C19_RevertExact ==
    (resp.op = "resolve" /\ resp.status = 0) =>
       /\ resp.q \notin inFlight
       /\ local[resp.q].present =>
             /\ local[resp.q].score = resp.before.score
             /\ local[resp.q].myVote = resp.before.myVote

\* C20: a question has at most one vote request outstanding, its id being in the
\* in-flight set exactly then; while the id is in the set no step adds a request for
\* the question, and its score and myVote on the page change only when a list is
\* merged or the request resolves.
C20_OneRequestPerQuestion ==
    /\ [](\A q \in QuestionIds : Len(calls[q]) <= 1 /\ (q \in inFlight <=> calls[q] # <<>>))
    /\ [][\A q \in inFlight :
             /\ Len(calls'[q]) <= Len(calls[q])
             /\ local'[q] # local[q] =>
                   \/ poll.sent /\ ~poll'.sent
                   \/ Len(calls'[q]) < Len(calls[q])]_vars

\* C20 witness: the optimistic +1 is on the page once, the request is on its way and
\* the buttons' question is still shown.
C20_Witness ==
    \E q \in QuestionIds :
        /\ q \in inFlight /\ Len(calls[q]) = 1
        /\ calls[q][1].pc = "answered" /\ calls[q][1].status = 200
        /\ local[q].present
        /\ local[q].score = calls[q][1].before.score + calls[q][1].delta
        /\ calls[q][1].delta = 2

\* C21 (violated): a request that carries a voter token is attributed to exactly that
\* token and no voter cookie is set on its response; a request that carries none has
\* one single generated identity, used for its attribution and for every voter cookie
\* its response sets.
C21_StableIdentity ==
    LET x == visitor.exchange
    IN  /\ x.cookie # "" =>
              /\ x.middleware = "" /\ x.handler = ""
              /\ x.voterId = x.cookie
        /\ x.cookie = "" =>
              Cardinality({x.middleware, x.handler, x.voterId} \ {""}) <= 1

\* C22 (violated): the accepted vote requests of one browser are attributed to one
\* voter id, so no question has rows under two ids of the same browser.
C22_OneIdentityPerBrowser ==
    /\ Cardinality(visitor.sentAs) <= 1
    /\ \A q \in LedgerIds :
          Cardinality({v \in visitor.sentAs : Len(votes[q, v]) > 0}) <= 1

\* C23: every stored vote row references an existing question and every question an
\* existing event; a step that deletes the event leaves no question and no vote row,
\* and a step that deletes a question leaves no vote row of it.
C23_CascadeOnDelete ==
    /\ [](/\ \A q \in QuestionIds, v \in Voters : Len(votes[q, v]) > 0 => questions[q].exists
          /\ \A q \in QuestionIds : questions[q].exists => event.exists)
    /\ [][/\ event.exists /\ ~event'.exists =>
                \A q \in QuestionIds :
                   ~questions'[q].exists /\ \A v \in Voters : votes'[q, v] = <<>>
          /\ \A q \in QuestionIds :
                questions[q].exists /\ ~questions'[q].exists =>
                   \A v \in Voters : votes'[q, v] = <<>>]_vars

\* The event was deleted with a question in it, and a vote whose upsert came after
\* the deletion was refused.
C23_Witness ==
    /\ ~event.exists
    /\ \E q \in QuestionIds : questions[q].createdAt # 0
    /\ resp.op = "vote" /\ resp.status = 500

\* C24 (violated): when a list response is merged that was read before a vote was
\* applied, and the vote's request has completed with a 200 and the question's id is
\* out of the in-flight set, the page keeps the question's score and myVote.
C24_PollNeverUndoes ==
    [][(poll.sent /\ ~poll'.sent) =>
          \A q \in poll.done \ inFlight :
              local[q].present =>
                 /\ local'[q].present
                 /\ local'[q].score = local[q].score
                 /\ local'[q].myVote = local[q].myVote]_vars

\* What the list handler answers va's browser for question q from the store as it is.
ServerProjection(q) ==
    IF \E found \in FindMany(questions, FALSE) : \E i \in 1..Len(found) : found[i] = q
    THEN ServerCopy(Enrich(questions, votes, q, "va"))
    ELSE NoLocal

\* What the awaited list response has for question q.
PolledProjection(q) ==
    IF ItemsOf(poll.questions, q) = {} THEN NoLocal
    ELSE ServerCopy(CHOOSE item \in ItemsOf(poll.questions, q) : TRUE)

\* C25: when no vote request is outstanding and the store is as the list handler read
\* it (no write since), merging the list response leaves every question's score and
\* myVote equal to the server's projection, whatever the last vote request's outcome.
C25_EventuallyConsistent ==
    [][(/\ poll.sent /\ ~poll'.sent
        /\ \A q \in QuestionIds : calls[q] = <<>>
        /\ \A q \in QuestionIds : PolledProjection(q) = ServerProjection(q))
       => \A q \in QuestionIds : local'[q] = ServerProjection(q)]_vars

\* C25 witness: no request is outstanding and no write came after the list was read;
\* the page still shows a +1 of va that the server does not have (the vote was
\* rejected and not taken back), which the merge is about to replace.
C25_Witness ==
    \E q \in QuestionIds :
        /\ poll.sent
        /\ \A p \in QuestionIds : calls[p] = <<>> /\ PolledProjection(p) = ServerProjection(p)
        /\ local[q].present /\ local[q].myVote = 1
        /\ votes[q, "va"] = <<>>
        /\ ServerProjection(q).present /\ ServerProjection(q).myVote = 0

\* C28: the in-flight set holds exactly the questions with an outstanding vote request,
\* and every step that resolves a request, with a 200, with another status or with a
\* rejected fetch, leaves the question's id out of the set.
C28_InFlightCleared ==
    /\ [](inFlight = {q \in QuestionIds : calls[q] # <<>>})
    /\ [][\A q \in QuestionIds :
             Len(calls'[q]) < Len(calls[q]) =>
                /\ resp'.op = "resolve" /\ resp'.status \in {0, 200, 409}
                /\ q \notin inFlight']_vars

\* C28 witness: a vote request was answered 409 and handled; the id is out of the set.
C28_Witness ==
    /\ resp.op = "resolve" /\ resp.status = 409
    /\ resp.q \notin inFlight /\ calls[resp.q] = <<>>

\* C26 (violated): for the store as it is and the mode of the request, the list
\* handler has one possible order: whatever order the database returns the rows in,
\* the response lists the questions in the order of the response at hand.
C26_DeterministicRanking ==
    (resp.op = "list" /\ resp.status = 200) =>
       \A found \in FindMany(questions, resp.isAdmin) :
          SortItems(resp.mode, <<>>,
                    [i \in 1..Len(found) |->
                        Enrich(questions, votes, found[i], resp.voter)]) = resp.questions

\* C27 (violated): when the presenter page merges a list response, a question that
\* is OPEN in the response and not in the undo queue is shown as OPEN afterwards.
C27_PresenterKeepsOnlyUndoable ==
    [][(resp'.op = "list" /\ presenter' # presenter) =>
          \A q \in QuestionIds : \A item \in ItemsOf(resp'.questions, q) :
              (item.status = "OPEN" /\ q \notin presenter.undoQueue)
                 => presenter'.status[q] = "OPEN"]_vars

\* An edit or a retract request for question q, by any caller.
EditOrRetract(q) ==
    \/ \E cookie \in {"va", "vb", ""}, text \in {"", EditedText} : EditQuestion(q, cookie, text)
    \/ \E cookie \in {"va", "vb", ""} : RetractQuestion(q, cookie)

\* C29: a question submitted without voter cookie is stored without submitter, and
\* every edit or retract request for a question without submitter is refused with 401
\* or 403 and changes neither the question nor its votes.
C29_AnonymousNeverEdited ==
    [][/\ SubmitQuestion("", TRUE, LedgerQuestions) =>
             \A q \in QuestionIds :
                (~questions[q].exists /\ questions'[q].exists) => questions'[q].submitterId = ""
       /\ \A q \in QuestionIds :
             (questions[q].exists /\ questions[q].submitterId = "" /\ EditOrRetract(q))
             => /\ resp'.status \in {401, 403}
                /\ questions' = questions
                /\ votes' = votes]_vars

\* C29 witness: inside the edit window, a caller with a voter cookie was refused the
\* retraction of a question that has no submitter and has a vote.
C29_Witness ==
    /\ resp.op = "retract" /\ resp.status = 403 /\ resp.v = "va"
    /\ questions[resp.q].exists /\ questions[resp.q].submitterId = ""
    /\ ~WindowExpired(now, questions[resp.q].createdAt)
    /\ votes[resp.q, "va"] # <<>>

\* C30 (violated): a host-only request is accepted only from a caller that has
\* presented the admin password.
C30_HostNeedsAdminPassword ==
    (resp.op \in HostKinds /\ resp.status = 200) => caller.gaveAdminPassword
====
